---- MODULE Spec2Model ----
(***************************************************************************)
(* The package store and link farm of cget (src/cget/prefix.py, class      *)
(* CGetPrefix): install / ignore / remove / unlink / link over the private *)
(* store directory prefix/cget/<fname>/ and the shared prefix tree.        *)
(*                                                                         *)
(* The program is single threaded.  A top-level call is started only when  *)
(* no call is in progress.  install is recursive (install_deps), so it is  *)
(* modelled with an explicit stack of frames, one step of its body per     *)
(* action; unlink, link, remove and ignore are one action each.            *)
(***************************************************************************)
EXTENDS Integers, Sequences, FiniteSets, TLC

\* ------------------------------------------------------------------ bounds
FilesPerPkg == 1       \* files a package's build installs
MaxLen == 5            \* characters of a token given to the resolver
NameLen == 2           \* characters of an owner, repository or ref name
MaxLines == 2          \* lines of a requirements file

\* ------------------------------------------------------------- the universe
None == "None"
Pkgs == {"A", "B"}
\* The store also has room for a third package, which only the
\* requirements of the dependency configurations (DepConfigs) name.
AllPkgs == Pkgs \cup {"C"}
Paths == AllPkgs \X (1..FilesPerPkg)
\* The files the build of package p installs (disjoint between packages).
Files(p) == {p} \X (1..FilesPerPkg)

\* One line of a requirements file: the package it names and its
\* --test / --build flags (PackageBuild.test, PackageBuild.build).
Req(p, t, b) == [pkg |-> p, test |-> t, build |-> b]
NoReqs == [p \in AllPkgs |-> << >>]
ReqConfigs ==
  { [NoReqs EXCEPT !["A"] = << Req("B", FALSE, FALSE) >>] }

\* --------------------------------------------------------- the file system
\* A store entry prefix/cget/<fname>/ : whether the directory exists, the
\* names of its children that the program tests or creates, the marker
\* files under .depend/, and the files under install/.
ChildNames == {"ignore", "unlink", ".unlink"}
Absent == [dir |-> FALSE, children |-> {}, depend |-> {}, install |-> {}]
NoFile == << "none", None >>

VARIABLES
  nt,        \* os.name == 'nt'
  symlinks,  \* util.USE_SYMLINKS
  reqs,      \* the requirements file of each package's source
  store,     \* store entry of each package
  prefix,    \* path of the prefix tree -> NoFile, <<"file", p>>, <<"symlink", p>>
  stack,     \* frames of the install call in progress, innermost last
  last,      \* record of the top-level call in progress or last completed
  prev,      \* summary of the call before `last`
  prev2,     \* summary of the call before `prev`
  clean,     \* TRUE while no call has ended with an exception
  aux        \* input and result of the function under study (resolver, try_)

vars == << nt, symlinks, reqs, store, prefix, stack, last, prev, prev2, clean, aux >>
\* What no step of install, unlink, link, remove or ignore changes.
env == << nt, symlinks, reqs, aux >>

\* get_unlink_directory: the path unlink would rename the entry to.
get_unlink_directory == ".unlink"
\* The child install and link test to see whether the entry is unlinked.
unlink_dir == "unlink"

\* util.mkdir(d): create the directory if it is missing.
mkdir(st, p) == [st EXCEPT ![p].dir = TRUE]

\* util.mkfile(pkg_dir, name, content): create the directory and the file.
mkfile(st, p, name) ==
  [st EXCEPT ![p].dir = TRUE, ![p].children = @ \cup {name}]

\* util.delete_dir / shutil.rmtree of the whole entry.
delete_dir(st, p) == [st EXCEPT ![p] = Absent]

\* util.rm_symlink_from(install_dir, prefix): remove every symlink of the
\* prefix tree that points into the entry's install/ tree.
rm_symlink_from(st, pfx, p) ==
  [x \in Paths |->
     IF x \in st[p].install /\ pfx[x] = << "symlink", p >> THEN NoFile ELSE pfx[x]]

\* util.rm_dup_dir(install_dir, prefix, remove_both=False): for every file of
\* the entry's install/ tree remove the file at the same relative path of
\* the prefix tree.
rm_dup_dir(st, pfx, p) ==
  [x \in Paths |-> IF x \in st[p].install THEN NoFile ELSE pfx[x]]

\* write_parent: record the dependency edge as a marker file named after
\* the parent under the entry's .depend directory (mkfile creates it).
write_parent(st, p, parent, track) ==
  IF track /\ parent # None
  THEN [st EXCEPT ![p].dir = TRUE, ![p].depend = @ \cup {parent}]
  ELSE st

TypeOK ==
  /\ nt \in BOOLEAN /\ symlinks \in BOOLEAN
  /\ \A p \in AllPkgs : \A i \in DOMAIN reqs[p] :
       reqs[p][i] \in [pkg : AllPkgs, test : BOOLEAN, build : BOOLEAN]
  /\ \A p \in AllPkgs :
       /\ store[p].dir \in BOOLEAN
       /\ store[p].children \subseteq ChildNames
       /\ store[p].depend \subseteq AllPkgs
       /\ store[p].install \subseteq Paths
  /\ \A x \in Paths : prefix[x] \in {NoFile} \cup ({"file", "symlink"} \X AllPkgs)

\* ------------------------------------------------------- unlink, link, ignore
Result(st, pfx, outcome, report) ==
  [store |-> st, prefix |-> pfx, outcome |-> outcome, report |-> report]

\* unlink, the branch that keeps the entry: util.mkdir(self.get_unlink_directory())
\* calls get_unlink_directory without its argument pb, which raises
\* TypeError before anything is created or renamed.
unlink_rename(st, pfx, p) == Result(st, pfx, "TypeError", None)

\* CGetPrefix.unlink(pkg, delete)
unlink(st, pfx, p, delete) ==
  IF st[p].dir
  THEN LET pfx1 == IF symlinks THEN rm_symlink_from(st, pfx, p)
                               ELSE rm_dup_dir(st, pfx, p)
       IN  IF delete THEN Result(delete_dir(st, p), pfx1, "ok", None)
                     ELSE unlink_rename(st, pfx1, p)
  ELSE Result(st, pfx, "ok", None)

\* CGetPrefix.remove(pkg)
remove(st, pfx, p) == unlink(st, pfx, p, TRUE)

\* CGetPrefix.link(pkg).  When pkg_dir/unlink exists, os.rename(unlink_dir,
\* pkg_dir) moves a directory onto its own non-empty parent, which the
\* operating system refuses (OSError), so symlink_dir / copy_dir are not
\* reached and nothing is published.  Otherwise
\* the relink loop lists the missing directory unlink_dir (util.ls gives
\* nothing for a missing directory) and the call returns.
link(st, pfx, p) ==
  IF unlink_dir \in st[p].children
  THEN Result(mkdir(st, p), pfx, "OSError", None)
  ELSE Result(st, pfx, "ok", None)

\* ignore as it would be if it reported the package ignored without
\* writing the marker file.
ignore_without_marker(st, pfx, p) ==
  IF ~ st[p].dir
  THEN Result(st, pfx, "ok", "Ignore package")
  ELSE Result(st, pfx, "ok", "already installed")

\* CGetPrefix.ignore(pb)
ignore(st, pfx, p) ==
  IF ~ st[p].dir
  THEN Result(mkfile(st, p, "ignore"), pfx, "ok", "Ignore package")
  ELSE Result(st, pfx, "ok", "already installed")

\* -------------------------------------------------------- call bookkeeping
NoCall == [op |-> "none", pkg |-> None, update |-> FALSE, test |-> FALSE,
           test_all |-> FALSE, store0 |-> [p \in AllPkgs |-> Absent],
           pfx0 |-> [x \in Paths |-> NoFile], log |-> << >>,
           outcome |-> "none", report |-> None]
NewCall(op, p, update, test, test_all) ==
  [op |-> op, pkg |-> p, update |-> update, test |-> test,
   test_all |-> test_all, store0 |-> store, pfx0 |-> prefix, log |-> << >>,
   outcome |-> "running", report |-> None]
Idle == stack = << >>
\* What is kept of a call once the next one has started.
Summary(r) == [op |-> r.op, pkg |-> r.pkg, update |-> r.update,
               outcome |-> r.outcome, report |-> r.report, pfx0 |-> r.pfx0]
\* Of the call before prev only an unlink is remembered: the one scenario
\* of three calls that is followed starts with an unlink.
NoCall2 == [op |-> "other", pkg |-> None, outcome |-> "none"]
Summary2(r) ==
  IF r.op = "unlink" THEN [op |-> r.op, pkg |-> r.pkg, outcome |-> r.outcome]
  ELSE NoCall2
\* `last` becomes prev, prev becomes prev2, when the next call starts.
Shift ==
  /\ prev' = Summary(last)
  /\ prev2' = Summary2(prev)

\* A call that is one action: apply r and record it.
Atomic(op, p, r) ==
  /\ Shift
  /\ store' = r.store
  /\ prefix' = r.prefix
  /\ last' = [NewCall(op, p, FALSE, FALSE, FALSE) EXCEPT
                !.outcome = r.outcome, !.report = r.report]
  /\ clean' = (clean /\ r.outcome = "ok")
  /\ UNCHANGED << env, stack >>

CallUnlink ==
  \E p \in Pkgs : Idle /\ Atomic("unlink", p, unlink(store, prefix, p, FALSE))
CallLink ==
  \E p \in Pkgs : Idle /\ Atomic("link", p, link(store, prefix, p))
CallRemove ==
  \E p \in Pkgs : Idle /\ Atomic("remove", p, remove(store, prefix, p))
CallIgnore ==
  \E p \in Pkgs : Idle /\ Atomic("ignore", p, ignore(store, prefix, p))

\* ------------------------------------------------------------------ install
Frame(p, parent, test, test_all, update, track) ==
  [pkg |-> p, parent |-> parent, test |-> test, test_all |-> test_all,
   update |-> update, track |-> track, pc |-> "check", i |-> 1]
Top == stack[Len(stack)]
At(pc) == stack # << >> /\ Top.pc = pc
Goto(pc) == stack' = [stack EXCEPT ![Len(stack)].pc = pc]
Ev(name, p) == [ev |-> name, pkg |-> p]
Logged(e) == [last EXCEPT !.log = Append(@, e)]

\* The innermost install returns rep: the outermost call completes, a
\* dependency's install hands control back to install_deps of its parent.
Return(rep) ==
  IF Len(stack) = 1
  THEN /\ stack' = << >>
       /\ last' = [Logged(Ev(rep, Top.pkg)) EXCEPT !.outcome = "ok", !.report = rep]
       /\ clean' = clean
  ELSE /\ stack' = [SubSeq(stack, 1, Len(stack) - 1) EXCEPT ![Len(stack) - 1].i = @ + 1]
       /\ last' = Logged(Ev(rep, Top.pkg))
       /\ clean' = clean

\* Raise with install_deps catching the exception of a dependency's
\* install and going on to the next requirement.
Raise_caught_by_parent(exc) ==
  IF Len(stack) = 1
  THEN /\ stack' = << >>
       /\ last' = [Logged(Ev(exc, Top.pkg)) EXCEPT !.outcome = exc]
       /\ clean' = FALSE
  ELSE /\ stack' = [SubSeq(stack, 1, Len(stack) - 1) EXCEPT ![Len(stack) - 1].i = @ + 1]
       /\ last' = Logged(Ev(exc, Top.pkg))
       /\ clean' = FALSE

\* An exception leaves every frame: install, install_deps and
\* create_builder catch nothing and have no finally clause.
Raise(exc) ==
  /\ stack' = << >>
  /\ last' = [Logged(Ev(exc, Top.pkg)) EXCEPT !.outcome = exc]
  /\ clean' = FALSE

\* A top-level install.  test_all is left at its default here: for the
\* package itself it acts as test does, and it is handed on to install_deps.
CallInstall ==
  \E p \in Pkgs, update \in BOOLEAN, test \in BOOLEAN, test_all \in {FALSE} :
    /\ Idle
    /\ Shift
    /\ stack' = << Frame(p, None, test, test_all, update, TRUE) >>
    /\ last' = NewCall("install", p, update, test, test_all)
    /\ UNCHANGED << env, store, prefix, clean >>

\* install_check without the removal under update.
install_check_ignores_update(st, pfx, f) ==
  LET p == f.pkg
      unlinked == unlink_dir \in st[p].children
  IN  IF unlinked /\ ~ f.update
      THEN LET r == link(st, pfx, p)
           IN  IF r.outcome # "ok" THEN r
               ELSE Result(write_parent(r.store, p, f.parent, f.track), r.prefix,
                           "ok", "Linking package")
      ELSE LET st1 == IF unlinked
                      THEN [st EXCEPT ![p].children = @ \ {unlink_dir}]
                      ELSE st
           IN  IF st1[p].dir
               THEN LET st2 == write_parent(st1, p, f.parent, f.track)
                    IN  Result(st2, pfx, "ok", "already installed")
               ELSE Result(st1, pfx, "ok", None)

\* install, from its entry to the with statement: the unlinked test, the
\* already-installed test and the removal under update.  report = None
\* means the call goes on to build.
install_check(st, pfx, f) ==
  LET p == f.pkg
      unlinked == unlink_dir \in st[p].children
  IN  IF unlinked /\ ~ f.update
      THEN LET r == link(st, pfx, p)
           IN  IF r.outcome # "ok" THEN r
               ELSE Result(write_parent(r.store, p, f.parent, f.track), r.prefix,
                           "ok", "Linking package")
      ELSE LET st1 == IF unlinked
                      THEN [st EXCEPT ![p].children = @ \ {unlink_dir}]
                      ELSE st
           IN  IF st1[p].dir
               THEN LET st2 == write_parent(st1, p, f.parent, f.track)
                    IN  IF f.update
                        THEN LET r == remove(st2, pfx, p)
                             IN  Result(r.store, r.prefix, r.outcome, None)
                        ELSE Result(st2, pfx, "ok", "already installed")
               ELSE Result(st1, pfx, "ok", None)

InstallCheck ==
  /\ At("check")
  /\ LET r == install_check(store, prefix, Top)
     IN  /\ store' = r.store
         /\ prefix' = r.prefix
         /\ IF r.outcome # "ok" THEN Raise(r.outcome)
            ELSE IF r.report # None THEN Return(r.report)
            ELSE Goto("create_builder") /\ last' = last /\ clean' = clean
  /\ UNCHANGED << env, prev, prev2 >>

\* create_builder up to its yield: d = get_package_directory(pb); mkdir(d).
create_builder_enter(st, p) == mkdir(st, p)

\* create_builder after the with body ended normally.
create_builder_exit(st, p, tmp) ==
  IF ~ nt /\ tmp THEN delete_dir(st, p) ELSE st

CreateBuilder ==
  /\ At("create_builder")
  /\ store' = create_builder_enter(store, Top.pkg)
  /\ Goto("fetch")
  /\ UNCHANGED << env, prefix, last, prev, prev2, clean >>

\* The directory configure is told to install into: install_prefix=self.prefix.
install_prefix == "prefix"

\* Builder.build(target='install'): the package's files are written under
\* the install prefix configure was given.
builder_install(st, pfx, p, target) ==
  IF target = "prefix"
  THEN Result(st, [x \in Paths |-> IF x \in Files(p) THEN << "file", p >> ELSE pfx[x]],
              "ok", None)
  ELSE Result([st EXCEPT ![p].install = Files(p)], pfx, "ok", None)

\* BuilderFetch with configure moved before install_deps.
BuilderFetch_before_deps ==
  /\ At("fetch")
  /\ last' = Logged(Ev("fetch", Top.pkg))
  /\ Goto("configure")
  /\ UNCHANGED << env, store, prefix, prev, prev2, clean >>

BuilderFetch ==
  /\ At("fetch")
  /\ last' = Logged(Ev("fetch", Top.pkg))
  /\ Goto("deps")
  /\ UNCHANGED << env, store, prefix, prev, prev2, clean >>

\* installable with testing read from test alone, test_all left out.
installable_by_test_alone(f, dep) == ~ dep.test \/ (dep.test = f.test)

\* install_deps: one turn of its loop over the requirements, or its end.
installable(f, dep) == ~ dep.test \/ (dep.test = (f.test \/ f.test_all))
transient(dep) == dep.test \/ dep.build
\* InstallDeps with every dependency installed with track true.
InstallDeps_tracks_all ==
  /\ At("deps")
  /\ LET f == Top
         rs == reqs[f.pkg]
     IN  IF f.i > Len(rs) THEN Goto("configure")
         ELSE IF installable(f, rs[f.i])
         THEN stack' = Append(stack, Frame(rs[f.i].pkg, f.pkg, FALSE, f.test_all,
                                           FALSE, TRUE))
         ELSE stack' = [stack EXCEPT ![Len(stack)].i = @ + 1]
  /\ UNCHANGED << env, store, prefix, last, prev, prev2, clean >>

InstallDeps ==
  /\ At("deps")
  /\ LET f == Top
         rs == reqs[f.pkg]
     IN  IF f.i > Len(rs) THEN Goto("configure")
         ELSE IF installable(f, rs[f.i])
         THEN stack' = Append(stack, Frame(rs[f.i].pkg, f.pkg, FALSE, f.test_all,
                                           FALSE, ~ transient(rs[f.i])))
         ELSE stack' = [stack EXCEPT ![Len(stack)].i = @ + 1]
  /\ UNCHANGED << env, store, prefix, last, prev, prev2, clean >>

\* The cmake override before configure (pb.cmake) only rewrites files of
\* the fetched source directory, which the store state does not record.
BuilderConfigure ==
  /\ At("configure")
  /\ last' = Logged(Ev("configure", Top.pkg))
  /\ Goto("build")
  /\ UNCHANGED << env, store, prefix, prev, prev2, clean >>

BuilderBuild ==
  /\ At("build")
  /\ last' = Logged(Ev("build", Top.pkg))
  /\ Goto(IF Top.test \/ Top.test_all THEN "test" ELSE "install")
  /\ UNCHANGED << env, store, prefix, prev, prev2, clean >>

BuilderTest ==
  /\ At("test")
  /\ last' = Logged(Ev("test", Top.pkg))
  /\ Goto("install")
  /\ UNCHANGED << env, store, prefix, prev, prev2, clean >>

BuilderInstall ==
  /\ At("install")
  /\ LET r == builder_install(store, prefix, Top.pkg, install_prefix)
     IN  store' = r.store /\ prefix' = r.prefix
  /\ last' = Logged(Ev("install", Top.pkg))
  /\ Goto("exit")
  /\ UNCHANGED << env, prev, prev2, clean >>

\* Any Builder step may fail with BuildError.
BuilderSteps == {"fetch", "configure", "build", "test", "install"}
BuilderFails ==
  /\ stack # << >>
  /\ Top.pc \in BuilderSteps
  /\ Raise("BuildError")
  /\ UNCHANGED << env, store, prefix, prev, prev2 >>

\* The end of install: create_builder's cleanup, write_parent, the report.
install_exit(st, f) ==
  write_parent(create_builder_exit(st, f.pkg, TRUE), f.pkg, f.parent, f.track)

InstallReturn ==
  /\ At("exit")
  /\ store' = install_exit(store, Top)
  /\ Return("Successfully installed")
  /\ UNCHANGED << env, prefix, prev, prev2 >>

\* ---------------------------------------------------------- specification
NoAux == [k |-> "none"]
\* The store and the history after construction: nothing installed, no call.
EmptyStore ==
  /\ store = [p \in AllPkgs |-> Absent]
  /\ prefix = [x \in Paths |-> NoFile]
  /\ stack = << >>
  /\ last = NoCall
  /\ prev = Summary(NoCall)
  /\ prev2 = NoCall2
  /\ clean = TRUE

Init ==
  /\ nt \in BOOLEAN
  /\ symlinks \in BOOLEAN
  /\ reqs \in ReqConfigs
  /\ aux = NoAux
  /\ EmptyStore

Next ==
  \/ CallInstall \/ InstallCheck \/ CreateBuilder \/ BuilderFetch
  \/ InstallDeps \/ BuilderConfigure \/ BuilderBuild \/ BuilderTest
  \/ BuilderInstall \/ BuilderFails \/ InstallReturn
  \/ CallUnlink \/ CallLink \/ CallRemove \/ CallIgnore

Spec == Init /\ [][Next]_vars

\* ------------------------------------------------------------------ claims
\* No call is in progress and the call recorded in `last` has ended.
Done == stack = << >> /\ last.op # "none"
PrefixPaths(pfx) == {x \in Paths : pfx[x] # NoFile}
\* The paths of the prefix tree that hold a file or link of package p.
Published(pfx, p) == {x \in Paths : pfx[x][2] = p}
\* A store entry that is present, not unlinked and not an ignored placeholder.
Linked(st, p) ==
  st[p].dir /\ unlink_dir \notin st[p].children /\ "ignore" \notin st[p].children
\* A linked entry whose package has its files in the prefix tree.
InstalledLinked(st, pfx, p) == Linked(st, p) /\ Files(p) \subseteq PrefixPaths(pfx)
Times(log, step, p) == Cardinality({i \in DOMAIN log : log[i] = Ev(step, p)})
NoBuilderStep(log) == \A i \in DOMAIN log : log[i].ev \notin BuilderSteps

\* C1: when install(p) has returned and install(p) is called again, both
\* without update, the second call reports "already installed", runs no
\* Builder step and leaves the entry's install tree as it was.
IdempotentInstall ==
  ( /\ Done /\ last.op = "install" /\ ~ last.update /\ last.outcome = "ok"
    /\ prev.op = "install" /\ prev.pkg = last.pkg /\ ~ prev.update
    /\ prev.outcome = "ok" )
  => /\ last.report = "already installed"
     /\ NoBuilderStep(last.log)
     /\ store[last.pkg].install = last.store0[last.pkg].install

\* C2: unlink(p) of a linked entry followed by link(p): both calls complete
\* and the prefix tree is again what it was before the unlink.
ReversibleUnlinkLink ==
  ( /\ Done /\ last.op = "link"
    /\ prev.op = "unlink" /\ prev.pkg = last.pkg
    /\ InstalledLinked(last.store0, prev.pfx0, last.pkg) )
  => /\ prev.outcome = "ok"
     /\ last.outcome = "ok"
     /\ prefix = prev.pfx0

\* C3: between calls, when every call so far has completed, the paths of the
\* prefix tree are the union of the install trees of the linked entries; and
\* a package reported "already installed" that is no ignored placeholder has
\* the files of its build in the prefix tree.
PrefixTreeInvariant ==
  (stack = << >> /\ clean)
  => /\ PrefixPaths(prefix) =
          UNION {store[p].install : p \in {q \in Pkgs : Linked(store, q)}}
     /\ ( /\ last.op = "install" /\ last.report = "already installed"
          /\ "ignore" \notin store[last.pkg].children )
        => Files(last.pkg) \subseteq PrefixPaths(prefix)

\* C4: with the edge "A depends on B" recorded in B's entry, unlink(B), then
\* unlink(A), then link(A) all complete and leave B linked, its files
\* published in the prefix tree.
CascadingRelink ==
  ( /\ Done /\ last.op = "link"
    /\ prev.op = "unlink" /\ prev.pkg = last.pkg
    /\ prev2.op = "unlink" /\ prev2.pkg # last.pkg
    /\ InstalledLinked(last.store0, prev.pfx0, last.pkg)
    /\ InstalledLinked(last.store0, prev.pfx0, prev2.pkg)
    /\ last.pkg \in last.store0[prev2.pkg].depend )
  => /\ prev2.outcome = "ok" /\ prev.outcome = "ok" /\ last.outcome = "ok"
     /\ Linked(store, prev2.pkg)
     /\ Files(prev2.pkg) \subseteq PrefixPaths(prefix)

\* C5: unlink(p) of a linked entry completes without error, leaves no path
\* of the entry's install tree in the prefix tree, leaves the entry with the
\* unlink marker that install and link test for, and keeps its install tree.
UnlinkKeepsEntry ==
  (Done /\ last.op = "unlink" /\ InstalledLinked(last.store0, last.pfx0, last.pkg))
  => /\ last.outcome = "ok"
     /\ last.store0[last.pkg].install \cap PrefixPaths(prefix) = {}
     /\ unlink_dir \in store[last.pkg].children
     /\ get_unlink_directory = unlink_dir
     /\ store[last.pkg].install = last.store0[last.pkg].install

\* C6: install(p) without update right after unlink(p) of an existing entry
\* reports "Linking package", runs no Builder step and leaves the entry
\* linked.
InstallRelinksUnlinked ==
  ( /\ Done /\ last.op = "install" /\ ~ last.update
    /\ prev.op = "unlink" /\ prev.pkg = last.pkg
    /\ InstalledLinked(last.store0, prev.pfx0, last.pkg) )
  => /\ last.outcome = "ok"
     /\ last.report = "Linking package"
     /\ NoBuilderStep(last.log)
     /\ Linked(store, last.pkg)

\* C7: install(p, update=True) on a linked entry first removes it (at the
\* point where the rebuild starts the entry is gone and no path of the
\* package is left in the prefix tree), then runs each Builder step for p
\* once and reports "Successfully installed"; without update it reports
\* "already installed" and runs no Builder step.
UpdateRebuilds ==
  /\ ( /\ Len(stack) = 1 /\ Top.pc = "create_builder" /\ Top.update
       /\ InstalledLinked(last.store0, last.pfx0, Top.pkg) )
     => /\ ~ store[Top.pkg].dir
        /\ Published(prefix, Top.pkg) = {}
  /\ ( /\ Done /\ last.op = "install" /\ last.outcome = "ok"
       /\ InstalledLinked(last.store0, last.pfx0, last.pkg) )
     => IF last.update
        THEN /\ last.report = "Successfully installed"
             /\ \A step \in {"fetch", "configure", "build", "install"} :
                  Times(last.log, step, last.pkg) = 1
        ELSE /\ last.report = "already installed"
             /\ NoBuilderStep(last.log)

\* C8: remove(p) of a linked entry leaves the entry absent and no path of
\* the package in the prefix tree, and changes no other entry and no other
\* path; remove of an absent entry changes nothing.
RemoveFrame ==
  (Done /\ last.op = "remove")
  => LET p == last.pkg
     IN  /\ InstalledLinked(last.store0, last.pfx0, p)
            => /\ ~ store[p].dir
               /\ Published(prefix, p) = {}
               /\ \A q \in Pkgs \ {p} : store[q] = last.store0[q]
               /\ \A x \in Paths \ Published(last.pfx0, p) : prefix[x] = last.pfx0[x]
         /\ ~ last.store0[p].dir
            => store = last.store0 /\ prefix = last.pfx0

\* C9: ignore(p) with no entry for p creates an entry holding the ignore
\* marker and no install tree and reports "Ignore package"; install(p)
\* called next reports "already installed" and runs no Builder step.
IgnoreThenInstall ==
  /\ (Done /\ last.op = "ignore" /\ ~ last.store0[last.pkg].dir)
     => /\ last.outcome = "ok"
        /\ last.report = "Ignore package"
        /\ store[last.pkg].dir
        /\ "ignore" \in store[last.pkg].children
        /\ store[last.pkg].install = {}
  /\ ( /\ Done /\ last.op = "install" /\ ~ last.update
       /\ prev.op = "ignore" /\ prev.pkg = last.pkg
       /\ prev.report = "Ignore package" )
     => /\ last.outcome = "ok"
        /\ last.report = "already installed"
        /\ NoBuilderStep(last.log)
        /\ "ignore" \in store[last.pkg].children

\* An install called right after the ignore that created the marker has ended.
IgnoreThenInstallReached ==
  /\ Done /\ last.op = "install" /\ ~ last.update
  /\ prev.op = "ignore" /\ prev.pkg = last.pkg
  /\ prev.report = "Ignore package"
  /\ last.report = "already installed"

\* C10: ignore(p) right after an install(p) that reported "Successfully
\* installed" reports "already installed", creates no ignore marker and
\* leaves the store and the prefix tree unchanged.
IgnoreKeepsInstall ==
  ( /\ Done /\ last.op = "ignore"
    /\ prev.op = "install" /\ prev.pkg = last.pkg
    /\ prev.report = "Successfully installed" )
  => /\ last.report = "already installed"
     /\ "ignore" \notin store[last.pkg].children
     /\ store = last.store0
     /\ prefix = last.pfx0

\* ============================================== installs with dependencies
\* Requirements files of three packages: a chain, a chain whose second
\* requirement is test-only, two requirements in file order, a test-only and
\* a build-only requirement, a cycle of two packages and a package that
\* requires itself.
DepConfigs ==
  { [NoReqs EXCEPT !["A"] = << Req("B", FALSE, FALSE) >>,
                   !["B"] = << Req("C", FALSE, FALSE) >>],
    [NoReqs EXCEPT !["A"] = << Req("B", FALSE, FALSE) >>,
                   !["B"] = << Req("C", TRUE, FALSE) >>],
    [NoReqs EXCEPT !["A"] = << Req("B", FALSE, FALSE), Req("C", FALSE, FALSE) >>],
    [NoReqs EXCEPT !["A"] = << Req("B", TRUE, FALSE), Req("C", FALSE, TRUE) >>],
    [NoReqs EXCEPT !["A"] = << Req("B", FALSE, FALSE) >>,
                   !["B"] = << Req("A", FALSE, FALSE) >>],
    [NoReqs EXCEPT !["A"] = << Req("A", FALSE, FALSE) >>] }

\* Of the call before prev: which operation, on which package, how it ended.
Summary3(r) == [op |-> r.op, pkg |-> r.pkg, outcome |-> r.outcome]
ShiftDeps ==
  /\ prev' = Summary(last)
  /\ prev2' = Summary3(prev)

\* A top-level install of the package that has the requirements: test and
\* test_all as the command line gives them.
DepsInstall ==
  \E p \in {"A"}, update \in BOOLEAN, test \in BOOLEAN, test_all \in BOOLEAN :
    /\ Idle
    /\ ShiftDeps
    /\ stack' = << Frame(p, None, test, test_all, update, TRUE) >>
    /\ last' = NewCall("install", p, update, test, test_all)
    /\ UNCHANGED << env, store, prefix, clean >>

DepsAtomic(op, p, r) ==
  /\ Idle
  /\ ShiftDeps
  /\ store' = r.store
  /\ prefix' = r.prefix
  /\ last' = [NewCall(op, p, FALSE, FALSE, FALSE) EXCEPT
                !.outcome = r.outcome, !.report = r.report]
  /\ clean' = (clean /\ r.outcome = "ok")
  /\ UNCHANGED << env, stack >>

DepsRemove == \E p \in {"A"} : DepsAtomic("remove", p, remove(store, prefix, p))
DepsIgnore == \E p \in {"B"} : DepsAtomic("ignore", p, ignore(store, prefix, p))

InitDeps ==
  /\ nt \in BOOLEAN
  /\ symlinks = TRUE
  /\ reqs \in DepConfigs
  /\ aux = NoAux
  /\ EmptyStore

NextDeps ==
  \/ DepsInstall \/ InstallCheck \/ CreateBuilder \/ BuilderFetch
  \/ InstallDeps \/ BuilderConfigure \/ BuilderBuild \/ BuilderTest
  \/ BuilderInstall \/ BuilderFails \/ InstallReturn
  \/ DepsRemove \/ DepsIgnore

SpecDeps == InitDeps /\ [][NextDeps]_vars

\* ------------------------------------------------- claims on dependencies
Reports == {"Linking package", "already installed", "Successfully installed"}
Requires(p) == {reqs[p][i].pkg : i \in DOMAIN reqs[p]}
RECURSIVE ReachableIn(_, _)
ReachableIn(S, n) ==
  IF n = 0 THEN S ELSE ReachableIn(S \cup UNION {Requires(q) : q \in S}, n - 1)
\* p requires itself, directly or through other packages.
OnCycle(p) == p \in ReachableIn(Requires(p), Cardinality(AllPkgs))
\* The requirements of frame f's package that install_deps installs.
InstallableDeps(f) == SelectSeq(reqs[f.pkg], LAMBDA d : installable(f, d))
\* The fetch of the innermost install in progress of package p.
LastFetch(log, p) ==
  CHOOSE k \in DOMAIN log :
    /\ log[k] = Ev("fetch", p)
    /\ \A j \in DOMAIN log : j > k => log[j] # Ev("fetch", p)
\* After position k the log has, in this order, a return of install for each
\* package of ds.
RECURSIVE ReturnedInOrder(_, _, _)
ReturnedInOrder(log, k, ds) ==
  \/ ds = << >>
  \/ \E j \in DOMAIN log :
       /\ j > k
       /\ log[j].pkg = Head(ds).pkg
       /\ log[j].ev \in Reports
       /\ ReturnedInOrder(log, j, Tail(ds))
BuiltSince(log, k, p) ==
  \E j \in DOMAIN log : j > k /\ log[j] = Ev("Successfully installed", p)

\* C11: when configure is about to run for a package, at any depth of an
\* install call, install has returned for each of its installable
\* requirements, in the order of the requirements file, since the package
\* was fetched; and each requirement this call built (its install reported
\* "Successfully installed") has its files in the prefix tree.
DepsBeforeConfigure ==
  At("configure") =>
    LET f == Top
        k == LastFetch(last.log, f.pkg)
        ds == InstallableDeps(f)
    IN  /\ ReturnedInOrder(last.log, k, ds)
        /\ \A i \in DOMAIN ds :
             BuiltSince(last.log, k, ds[i].pkg)
               => Files(ds[i].pkg) \subseteq PrefixPaths(prefix)

\* C11 as stated: at that point every installable requirement has its files
\* in the prefix tree.  Read here for requirements without a cycle and with
\* no failed call before.
DepsAvailableAtConfigure ==
  (At("configure") /\ clean /\ \A p \in AllPkgs : ~ OnCycle(p)) =>
    LET f == Top
        k == LastFetch(last.log, f.pkg)
        ds == InstallableDeps(f)
    IN  /\ ReturnedInOrder(last.log, k, ds)
        /\ \A i \in DOMAIN ds : Files(ds[i].pkg) \subseteq PrefixPaths(prefix)

\* configure is about to run for A, whose requirement B was built in this
\* call after its own requirement C.
DepsBeforeConfigureReached ==
  /\ At("configure") /\ Len(stack) = 1 /\ Top.pkg = "A"
  /\ BuiltSince(last.log, 0, "B") /\ BuiltSince(last.log, 0, "C")
  /\ reqs["B"] # << >>

\* The steps the Builder ran for package p in the call logged: each once.
BuiltOnce(log, p) ==
  /\ Times(log, "fetch", p) = 1 /\ Times(log, "configure", p) = 1
  /\ Times(log, "build", p) = 1 /\ Times(log, "install", p) = 1
\* The package whose install raised the exception that ended the call.
FailedPkg(log) == log[Len(log)].pkg
\* install(p, update=True) right after an install(p) that ended in BuildError.
RetryByUpdate ==
  /\ last.op = "install" /\ last.update
  /\ prev.op = "install" /\ prev.pkg = last.pkg /\ prev.outcome = "BuildError"
\* install(p) after remove(p) after an install(p) that ended in BuildError.
RetryByRemove ==
  /\ last.op = "install" /\ ~ last.update
  /\ prev.op = "remove" /\ prev.pkg = last.pkg /\ prev.outcome = "ok"
  /\ prev2.op = "install" /\ prev2.pkg = last.pkg /\ prev2.outcome = "BuildError"

\* C12: an install that ends with BuildError leaves the store entry of the
\* package it was called for, and of the package whose Builder step failed,
\* in place.  An install with update, or a remove and then an install, that
\* follows it reaches the Builder with an entry that holds nothing but its
\* directory, ends only by completing or by another BuildError, and when it
\* completes reports "Successfully installed" after each Builder step ran.
FailureKeepsEntryRetryBuilds ==
  /\ (Done /\ last.op = "install" /\ last.outcome = "BuildError")
     => /\ store[last.pkg].dir
        /\ store[FailedPkg(last.log)].dir
  /\ ((RetryByUpdate \/ RetryByRemove) /\ Len(stack) = 1 /\ At("fetch"))
     => store[last.pkg] = [Absent EXCEPT !.dir = TRUE]
  /\ ((RetryByUpdate \/ RetryByRemove) /\ Done)
     => /\ last.outcome \in {"ok", "BuildError"}
        /\ last.outcome = "ok"
           => /\ last.report = "Successfully installed"
              /\ BuiltOnce(last.log, last.pkg)

\* A failed install of A, remove(A), and an install of A that completed.
RetryByRemoveReached ==
  Done /\ RetryByRemove /\ last.report = "Successfully installed"

\* C13: when a Builder step of a dependency's install raises BuildError, the
\* error is the outcome of the outermost install call and nothing runs after
\* it: no frame is left, nothing is reported, the failed step is the last
\* event; and for every other package, the parent included, configure,
\* build and install were invoked only in installs that had completed, so
\* the parent was not built and is not reported "Successfully installed".
DependencyFailureAborts ==
  \A k \in DOMAIN last.log :
    (last.log[k].ev = "BuildError" /\ last.log[k].pkg # last.pkg)
    => /\ k = Len(last.log)
       /\ stack = << >>
       /\ last.outcome = "BuildError"
       /\ last.report = None
       /\ Times(last.log, "BuildError", last.log[k].pkg) = 1
       /\ \A q \in AllPkgs \ {last.log[k].pkg} :
            LET done == Times(last.log, "Successfully installed", q)
            IN  /\ Times(last.log, "configure", q) = done
                /\ Times(last.log, "build", q) = done
                /\ Times(last.log, "install", q) = done
       /\ Times(last.log, "configure", last.pkg) = 0
       /\ Times(last.log, "Successfully installed", last.pkg) = 0

\* install(A) ended with the BuildError of C, a requirement of A's
\* requirement B.
DependencyFailureReached ==
  /\ Done /\ last.op = "install" /\ last.pkg = "A" /\ last.outcome = "BuildError"
  /\ FailedPkg(last.log) = "C"
  /\ Times(last.log, "fetch", "B") = 1

\* The requirements line an install in progress at depth k >= 2 was made for.
LineOf(k) == reqs[stack[k - 1].pkg][stack[k - 1].i]

\* C14: the install of a dependency runs with track false exactly when its
\* requirements line is test-only or build-only; a step adds a dependency
\* marker to an entry only as a step of an install with track true made for
\* a line that is neither, the marker naming the parent; and when a
\* dependency's install returns, by whichever branch, the entry has the
\* parent's marker if the line is neither test-only nor build-only and has
\* the markers it had before if it is.
TransientDepsUntracked ==
  [][ /\ \A k \in 2..Len(stack) :
           /\ stack[k].pkg = LineOf(k).pkg
           /\ stack[k].parent = stack[k - 1].pkg
           /\ stack[k].track = ~ (LineOf(k).test \/ LineOf(k).build)
      /\ \A p \in AllPkgs : \A q \in store'[p].depend \ store[p].depend :
           /\ Len(stack) >= 2
           /\ Top.pkg = p /\ Top.parent = q
           /\ ~ (LineOf(Len(stack)).test \/ LineOf(Len(stack)).build)
      /\ (Len(stack) >= 2 /\ Len(stack') = Len(stack) - 1)
         => IF LineOf(Len(stack)).test \/ LineOf(Len(stack)).build
            THEN store'[Top.pkg].depend \subseteq store[Top.pkg].depend
            ELSE Top.parent \in store'[Top.pkg].depend
    ]_vars

\* install(A) with tests has built the test-only requirement B and the
\* build-only requirement C; neither entry has a marker.
TransientDepsBuilt ==
  /\ Done /\ last.op = "install" /\ last.report = "Successfully installed"
  /\ reqs["A"] = << Req("B", TRUE, FALSE), Req("C", FALSE, TRUE) >>
  /\ BuiltSince(last.log, 0, "B") /\ BuiltSince(last.log, 0, "C")
  /\ store["B"].dir /\ store["B"].depend = {} /\ store["C"].depend = {}

\* C20: an install of a package that is on a cycle of requirements, started
\* with an empty store and in which no Builder step failed, ends with
\* ResolutionError, never has more installs in progress than there are
\* packages, and reports no package of the cycle "Successfully installed".
CycleIsAnError ==
  ( /\ last.op = "install" /\ OnCycle(last.pkg) /\ last.outcome # "BuildError"
    /\ \A q \in AllPkgs : ~ last.store0[q].dir )
  => /\ Len(stack) <= Cardinality(AllPkgs)
     /\ Done => /\ last.outcome = "ResolutionError"
                /\ \A q \in AllPkgs :
                     OnCycle(q) => Times(last.log, "Successfully installed", q) = 0

\* A return of install for package p is logged after position k.
ReturnedSince(log, k, p) ==
  \E j \in DOMAIN log : j > k /\ log[j].pkg = p /\ log[j].ev \in Reports

\* C21: when configure is about to run for a package, at any depth, install
\* has returned since the fetch for a test-only requirement exactly when the
\* package's own install runs with test or test_all, and for every
\* requirement that is not test-only; the install of a requirement runs with
\* test false and with the test_all of the install that requires it; and the
\* tests of a package other than the one the call names run only in a call
\* with test_all.
TestOnlyDepsAndTestAll ==
  /\ At("configure") =>
       \A i \in DOMAIN reqs[Top.pkg] :
         ReturnedSince(last.log, LastFetch(last.log, Top.pkg), reqs[Top.pkg][i].pkg)
           <=> (reqs[Top.pkg][i].test => (Top.test \/ Top.test_all))
  /\ stack # << >> =>
       /\ stack[1].test = last.test
       /\ stack[1].test_all = last.test_all
  /\ \A k \in 2..Len(stack) :
       /\ ~ stack[k].test
       /\ stack[k].test_all = stack[k - 1].test_all
  /\ \A j \in DOMAIN last.log :
       (last.log[j].ev = "test" /\ last.log[j].pkg # last.pkg) => last.test_all

\* install(A, test=True) has built and tested A and has built its test-only
\* requirement B without running B's tests.
TestOnlyDepBuiltUntested ==
  /\ Done /\ last.op = "install" /\ last.pkg = "A"
  /\ last.report = "Successfully installed"
  /\ last.test /\ ~ last.test_all
  /\ reqs["A"] = << Req("B", TRUE, FALSE), Req("C", FALSE, TRUE) >>
  /\ BuiltSince(last.log, 0, "B")
  /\ Times(last.log, "test", "A") = 1
  /\ Times(last.log, "test", "B") = 0

\* =================================================================== try_
\* What the guarded block may raise: a util.BuildError with or without msg
\* and data, another Exception, or a BaseException such as KeyboardInterrupt.
BuildErrors == [type : {"BuildError"}, msg : {None, "err.msg"}, data : {None, "err.data"}]
OtherErrors == [type : {"OSError", "KeyboardInterrupt"}, msg : {None}, data : {None}]
NoError == [type |-> "none", msg |-> None, data |-> None]
\* How a call of try_ ends.
Returned == [kind |-> "return", err |-> NoError, status |-> 0]
Raised(err) == [kind |-> "raise", err |-> err, status |-> 0]
Exited(n) == [kind |-> "exit", err |-> NoError, status |-> n]
NoOutcome == [kind |-> "none", err |-> NoError, status |-> 0]

\* on_fail(), when one is given: the callback runs and returns.
on_fail(a) == IF a.on_fail THEN [a EXCEPT !.failed = @ + 1] ELSE a
echo(a, text) == [a EXCEPT !.out = Append(@, text)]
echo_if(a, text) == IF text # None THEN echo(a, text) ELSE a

\* except util.BuildError as err:
try_except_BuildError(a) ==
  LET a1 == on_fail(echo_if(echo_if(a, a.err.msg), a.msg))
  IN  IF a1.verbose
      THEN [echo_if(a1, a1.err.data) EXCEPT !.result = Raised(a1.err)]
      ELSE [a1 EXCEPT !.result = Exited(1)]

\* try_except_any with an error dropped when verbose is off.
try_except_any_swallows(a) ==
  LET a1 == on_fail(echo_if(echo(echo(a, "Unexpected error: "), "exvalue"), a.msg))
  IN  IF a1.verbose
      THEN [a1 EXCEPT !.result = Raised(a1.err)]
      ELSE [a1 EXCEPT !.result = Returned]

\* except: (anything else, BaseException included)
try_except_any(a) ==
  LET a1 == on_fail(echo_if(echo(echo(a, "Unexpected error: "), "exvalue"), a.msg))
  IN  IF a1.verbose
      THEN [a1 EXCEPT !.result = Raised(a1.err)]
      ELSE [a1 EXCEPT !.result = Exited(1)]

TryCalls ==
  [k : {"try_"}, verbose : BOOLEAN, msg : {None, "msg"}, on_fail : BOOLEAN,
   err : {NoError} \cup BuildErrors \cup OtherErrors, pc : {"try"},
   out : {<< >>}, failed : {0}, result : {NoOutcome}]

\* No step of try_ touches the store, the prefix tree or the call history.
StoreIdle ==
  UNCHANGED << nt, symlinks, reqs, store, prefix, stack, last, prev, prev2, clean >>

\* try: yield -- the guarded block starts.
TryYield ==
  /\ aux.pc = "try"
  /\ aux' = [aux EXCEPT !.pc = "block"]
  /\ StoreIdle
\* The block ends without an exception and so does try_.
TryBlockReturns ==
  /\ aux.pc = "block" /\ aux.err = NoError
  /\ aux' = [aux EXCEPT !.pc = "done", !.result = Returned]
  /\ StoreIdle
\* The block raises: the first except clause that matches is chosen.
TryBlockRaises ==
  /\ aux.pc = "block" /\ aux.err # NoError
  /\ aux' = [aux EXCEPT !.pc = IF aux.err.type = "BuildError"
                               THEN "except BuildError" ELSE "except"]
  /\ StoreIdle
TryExceptBuildError ==
  /\ aux.pc = "except BuildError"
  /\ aux' = [try_except_BuildError(aux) EXCEPT !.pc = "done"]
  /\ StoreIdle
TryExceptAny ==
  /\ aux.pc = "except"
  /\ aux' = [try_except_any(aux) EXCEPT !.pc = "done"]
  /\ StoreIdle

InitTry ==
  /\ nt = FALSE /\ symlinks = TRUE /\ reqs = NoReqs
  /\ aux \in TryCalls
  /\ EmptyStore
NextTry ==
  \/ TryYield \/ TryBlockReturns \/ TryBlockRaises
  \/ TryExceptBuildError \/ TryExceptAny
SpecTry == InitTry /\ [][NextTry]_vars

\* C15: when the block guarded by try_ raised an error, BuildError or any
\* other, try_ ends by exiting with status 1 if verbose is off and by
\* raising that same error if verbose is on; it never ends by returning.
TryNeverSwallows ==
  (aux.k = "try_" /\ aux.pc = "done" /\ aux.err # NoError)
  => /\ ~ aux.verbose => aux.result = Exited(1)
     /\ aux.verbose => aux.result = Raised(aux.err)
     /\ aux.result.kind # "return"

\* An error that is no BuildError, verbose off: the process exits.
TryExitReached ==
  /\ aux.k = "try_" /\ aux.pc = "done" /\ ~ aux.verbose
  /\ aux.err.type = "KeyboardInterrupt"
  /\ aux.result = Exited(1)

\* ========================================================= the resolver
\* Strings are sequences of characters; positions count from 0 as in Python.
Chars == {"a", "b", "/", "@", ",", ":"}
RECURSIVE StringsOf(_)
StringsOf(n) ==
  IF n = 0 THEN {<< >>}
  ELSE {<< >>} \cup {<< c >> \o s : c \in Chars, s \in StringsOf(n - 1)}
Tokens == StringsOf(MaxLen) \ {<< >>}
\* None where a string may stand, and literal text of more than one character.
Nil == << None >>
Text(t) == << t >>

Max(a, b) == IF a >= b THEN a ELSE b
Min(a, b) == IF a <= b THEN a ELSE b
\* s[i:j]
Slice(s, i, j) == SubSeq(s, i + 1, j)
\* s.find(sub, start, end): the lowest index in s[start:end] where sub is
\* found, -1 when there is none; a negative end counts from the end of s.
Find(s, sub, start, end) ==
  LET e == IF end < 0 THEN Max(Len(s) + end, 0) ELSE Min(end, Len(s))
      at == {i \in start..(e - Len(sub)) : Slice(s, i, i + Len(sub)) = sub}
  IN  IF at = {} THEN -1 ELSE CHOOSE i \in at : \A j \in at : i <= j
find(s, sub) == Find(s, sub, 0, Len(s))
\* sub in s
In(sub, s) == find(s, sub) >= 0
\* s.split(c)
RECURSIVE split(_, _)
split(s, c) ==
  LET i == find(s, << c >>)
  IN  IF i < 0 THEN << s >>
      ELSE << Slice(s, 0, i) >> \o split(Slice(s, i + 1, Len(s)), c)

\* parse_deprecated_alias(s)
parse_deprecated_alias(s) ==
  LET i == Find(s, << ":" >>, 0,
                Max(find(s, << ":", "/", "/" >>), find(s, << ":", "\\" >>)))
  IN  IF i > 0 THEN << Slice(s, 0, i), Slice(s, i + 1, Len(s)) >>
      ELSE << Nil, s >>

\* parse_alias(s)
parse_alias(s) ==
  LET i == find(s, << "," >>)
  IN  IF i > 0 THEN << Slice(s, 0, i), Slice(s, i + 1, Len(s)) >>
      ELSE parse_deprecated_alias(s)

\* functools.reduce(lambda x, y: x == y, ps) and its truth value: the
\* accumulator is the first string, then the bool of each comparison, and a
\* bool never equals a string.
RECURSIVE reduce_eq(_, _)
reduce_eq(acc, ps) ==
  IF ps = << >> THEN acc
  ELSE reduce_eq([bool |-> TRUE,
                  val |-> IF acc.bool THEN FALSE ELSE acc.val = Head(ps)],
                 Tail(ps))
truthy(acc) == IF acc.bool THEN acc.val ELSE acc.val # << >>

\* parse_src_name(url, default)
parse_src_name(url, default) ==
  LET x == split(url, "@")
      p0 == x[1]
      ps == split(p0, "/")
      p == IF In(<< "/" >>, p0)
              /\ truthy(reduce_eq([bool |-> FALSE, val |-> Head(ps)], Tail(ps)))
           THEN ps[1] ELSE p0
      v == IF Len(x) > 1 THEN x[2] ELSE default
  IN  << p, v >>

PackageSource(name, url, recipe) == [name |-> name, url |-> url, recipe |-> recipe]
\* None where a PackageSource may stand.
NoSource == PackageSource(Nil, Nil, Nil)
\* util.actual_path(url, start): the path url names, taken from start.
actual_path(url, start) == start \o << "/" >> \o url

\* parse_src_file(name, url, start); exists is os.path.exists(f).
parse_src_file(name, url, start, exists) ==
  IF exists THEN PackageSource(name, Text("file://") \o actual_path(url, start), Nil)
  ELSE NoSource

\* parse_src_recipe(name, url); exists is os.path.exists(rp) for one of
\* the recipe paths.
parse_src_recipe(name, url, exists) ==
  LET pv == parse_src_name(url, Nil)
      rp == Text("<recipes>/") \o pv[1] \o Text("/")
              \o (IF pv[2] = Nil THEN << >> ELSE pv[2])
  IN  IF exists
      THEN PackageSource(IF name = Nil \/ name = << >> THEN pv[1] ELSE name, Nil, rp)
      ELSE NoSource

\* parse_src_github without the owner defaulting to the repository name.
parse_src_github_no_owner(name, url) ==
  LET pv == parse_src_name(url, Text("HEAD"))
      p == pv[1]
      v == pv[2]
      u == Text("https://github.com/") \o p \o Text("/archive/") \o v
             \o Text(".tar.gz")
  IN  PackageSource(IF name = Nil THEN p ELSE name, u, Nil)

\* parse_src_github(name, url)
parse_src_github(name, url) ==
  LET pv == parse_src_name(url, Text("HEAD"))
      p == pv[1]
      v == pv[2]
      u == IF In(<< "/" >>, p)
           THEN Text("https://github.com/") \o p \o Text("/archive/") \o v
                  \o Text(".tar.gz")
           ELSE Text("https://github.com/") \o p \o << "/" >> \o p
                  \o Text("/archive/") \o v \o Text(".tar.gz")
  IN  PackageSource(IF name = Nil THEN p ELSE name, u, Nil)

\* parse_pkg_src with the file before the recipe lookup swapped.
parse_pkg_src_recipe_first(pkg, start, file_exists, recipe_exists, no_recipe) ==
  LET a == parse_alias(pkg)
      name == a[1]
      url == a[2]
      r == IF no_recipe THEN NoSource ELSE parse_src_recipe(name, url, recipe_exists)
      f == parse_src_file(name, url, start, file_exists)
  IN  IF ~ In(<< ":", "/", "/" >>, url)
      THEN IF r # NoSource THEN r
           ELSE IF f # NoSource THEN f
           ELSE parse_src_github(name, url)
      ELSE PackageSource(name, url, Nil)

\* parse_pkg_src(pkg, start, no_recipe) for a raw token pkg; file_exists and
\* recipe_exists are what os.path.exists answers in parse_src_file and
\* parse_src_recipe.
parse_pkg_src(pkg, start, file_exists, recipe_exists, no_recipe) ==
  LET a == parse_alias(pkg)
      name == a[1]
      url == a[2]
      f == parse_src_file(name, url, start, file_exists)
      r == IF no_recipe THEN NoSource ELSE parse_src_recipe(name, url, recipe_exists)
  IN  IF ~ In(<< ":", "/", "/" >>, url)
      THEN IF f # NoSource THEN f
           ELSE IF r # NoSource THEN r
           ELSE parse_src_github(name, url)
      ELSE PackageSource(name, url, Nil)

ParseCalls ==
  [k : {"parse_pkg_src"}, pkg : Tokens, start : {<< "start" >>}, file_exists : BOOLEAN,
   recipe_exists : BOOLEAN, no_recipe : BOOLEAN, pc : {"call"}, result : {NoSource}]

ParsePkgSrc ==
  /\ aux.pc = "call"
  /\ aux' = [aux EXCEPT !.pc = "done",
               !.result = parse_pkg_src(aux.pkg, aux.start, aux.file_exists,
                                        aux.recipe_exists, aux.no_recipe)]
  /\ StoreIdle

InitParse ==
  /\ nt = FALSE /\ symlinks = TRUE /\ reqs = NoReqs
  /\ aux \in ParseCalls
  /\ EmptyStore
NextParse == ParsePkgSrc
SpecParse == InitParse /\ [][NextParse]_vars

\* ------------------------------------------------- claims on the resolver
\* The remainder of the token under study after the alias split.
Remainder == parse_alias(aux.pkg)[2]
HasScheme(url) ==
  \E i \in 1..(Len(url) - 2) : url[i] = ":" /\ url[i + 1] = "/" /\ url[i + 2] = "/"
\* Which of the four sources a PackageSource is.
Kind(r) ==
  IF r.recipe # Nil THEN "recipe"
  ELSE IF r.url # << >> /\ Head(r.url) = "file://" THEN "file"
  ELSE IF r.url # << >> /\ Head(r.url) = "https://github.com/" THEN "shorthand"
  ELSE "url"
Parsed == aux.k = "parse_pkg_src" /\ aux.pc = "done"

\* C16: parse_pkg_src resolves a raw token, after the alias split, in this
\* order: a remainder with a scheme marker is used verbatim as the URL,
\* whether or not it names an existing path or recipe; otherwise an existing
\* path gives a local file source; otherwise, when no_recipe is false and
\* the recipe directory exists, a recipe source; otherwise the shorthand
\* archive URL.  With no_recipe set the result is never a recipe source.
ResolutionOrder ==
  Parsed =>
    /\ Kind(aux.result) =
         IF HasScheme(Remainder) THEN "url"
         ELSE IF aux.file_exists THEN "file"
         ELSE IF ~ aux.no_recipe /\ aux.recipe_exists THEN "recipe"
         ELSE "shorthand"
    /\ HasScheme(Remainder) => aux.result.url = Remainder
    /\ aux.no_recipe => aux.result.recipe = Nil

\* C16 as stated: the existing path first, then the recipe, then the scheme
\* marker, then the shorthand.
ResolutionOrderFileFirst ==
  Parsed =>
    /\ Kind(aux.result) =
         IF aux.file_exists THEN "file"
         ELSE IF ~ aux.no_recipe /\ aux.recipe_exists THEN "recipe"
         ELSE IF HasScheme(Remainder) THEN "url"
         ELSE "shorthand"
    /\ aux.no_recipe => aux.result.recipe = Nil

\* A token with a scheme marker that also names an existing path has been
\* resolved to the URL itself.
SchemeBeforeFileReached ==
  /\ Parsed /\ HasScheme(Remainder) /\ aux.file_exists
  /\ Kind(aux.result) = "url"

\* Owner, repository and ref names: letters only.
RECURSIVE NamesOf(_)
NamesOf(n) ==
  IF n = 0 THEN {<< >>}
  ELSE {<< >>} \cup {<< c >> \o s : c \in {"a", "b"}, s \in NamesOf(n - 1)}
Names == NamesOf(NameLen) \ {<< >>}
\* The names that occur in string s: a shorthand is made of such names only.
NamesIn(s) ==
  {n \in {SubSeq(s, i, j) : i \in 1..Len(s), j \in 1..Len(s)} : n \in Names}
\* The archive URL of owner/repo at ref.
Archive(owner, repo, ref) ==
  << "https://github.com/" >> \o owner \o << "/" >> \o repo
    \o << "/archive/" >> \o ref \o << ".tar.gz" >>
\* The token under study is the shorthand path, with @ref when ref is given.
IsShorthand(path, ref) ==
  aux.pkg = IF ref = << >> THEN path ELSE path \o << "@" >> \o ref
RefOf(ref) == IF ref = << >> THEN << "HEAD" >> ELSE ref
\* The resolver got as far as the shorthand: no such path, no recipe used.
ShorthandParsed ==
  Parsed /\ ~ aux.file_exists /\ ~ (aux.recipe_exists /\ ~ aux.no_recipe)

\* C17: the shorthand owner/repo resolves to the archive URL of owner/repo
\* at "HEAD", owner/repo@ref to the same URL at ref, and a bare repo or
\* repo@ref to the URL of repo/repo; with no alias the package name is the
\* shorthand's path part, except that owner/repo with owner equal to repo is
\* named repo.
ShorthandResolution ==
  ShorthandParsed =>
    \A o \in NamesIn(aux.pkg), r \in NamesIn(aux.pkg),
       v \in NamesIn(aux.pkg) \cup {<< >>} :
      /\ IsShorthand(o \o << "/" >> \o r, v)
         => /\ aux.result.url = Archive(o, r, RefOf(v))
            /\ aux.result.name = IF o = r THEN r ELSE o \o << "/" >> \o r
      /\ IsShorthand(r, v)
         => /\ aux.result.url = Archive(r, r, RefOf(v))
            /\ aux.result.name = r

\* C17 as stated: with no alias the package name is the shorthand's path
\* part.
ShorthandNamedByPath ==
  ShorthandParsed =>
    \A o \in NamesIn(aux.pkg), r \in NamesIn(aux.pkg),
       v \in NamesIn(aux.pkg) \cup {<< >>} :
      /\ IsShorthand(o \o << "/" >> \o r, v)
         => /\ aux.result.url = Archive(o, r, RefOf(v))
            /\ aux.result.name = o \o << "/" >> \o r
      /\ IsShorthand(r, v)
         => /\ aux.result.url = Archive(r, r, RefOf(v))
            /\ aux.result.name = r

\* a/a@b has been resolved: the archive of a/a at b, named a.
ShorthandSameNameReached ==
  /\ ShorthandParsed /\ aux.pkg = << "a", "/", "a", "@", "b" >>
  /\ aux.result = PackageSource(<< "a" >>, Archive(<< "a" >>, << "a" >>, << "b" >>), Nil)

\* ==================================================== from_file, from_recipe
\* A PackageBuild, with the fields the resolver reads and writes.
PackageBuild(pkg_src) ==
  [pkg_src |-> pkg_src, requirements |-> Nil, file |-> [none |-> TRUE]]
\* None where an object may stand.
NoneObj == [none |-> TRUE]
\* A raw token where a PackageBuild or PackageSource may stand.
Str(s) == [s |-> s]
IsPackageBuild(x) == "pkg_src" \in DOMAIN x
IsPackageSource(x) == "url" \in DOMAIN x
IsStr(x) == "s" \in DOMAIN x
\* A call that returned val, a call that raised exc after yielding val.
Ok(val) == [exc |-> "none", val |-> val]
Err(exc, val) == [exc |-> exc, val |-> val]

\* The lines of a requirements file: a package token, an include of the
\* file `name` of the directory itself or of its subdirectory, a blank or
\* comment line.
PkgLine(t) == [kind |-> "pkg", token |-> t, sub |-> FALSE, name |-> None]
FileLine(sub, n) == [kind |-> "file", token |-> << >>, sub |-> sub, name |-> n]
BlankLine == [kind |-> "blank", token |-> << >>, sub |-> FALSE, name |-> None]
RelPath(sub, n) == [sub |-> sub, name |-> n]
\* parse_pkg_build_tokens(tokens)
parse_pkg_build_tokens(line) ==
  IF line.kind = "file"
  THEN [PackageBuild(NoneObj) EXCEPT !.file = RelPath(line.sub, line.name)]
  ELSE PackageBuild(Str(line.token))

\* Directories and the files in them: a file is a pair << directory, name >>.
TopDir == << "top" >>
Sub(d) == d \o << "/", "sub" >>
Nowhere == << "nowhere" >>
\* os.path.exists(file), and the lines open(file) reads, in world w.
Exists(w, file) ==
  \E n \in DOMAIN w.files : file = << w.files[n].dir, n >>
ReadLines(w, file) == w.files[file[2]].lines
\* os.path.exists of the path a token's remainder names from start, and of
\* the recipe directory of the remainder.
FileExists(w, pkg, start) == << start, parse_alias(pkg)[2] >> \in w.local
RecipeExists(w, pkg) == parse_src_name(parse_alias(pkg)[2], Nil) \in w.recipes

\* parse_pkg_src(pkg, start, no_recipe) for a PackageSource, a PackageBuild
\* or a raw token.
RECURSIVE parse_pkg_src_any(_, _, _, _)
parse_pkg_src_any(w, pkg, start, no_recipe) ==
  IF IsPackageSource(pkg) THEN pkg
  ELSE IF IsPackageBuild(pkg) THEN parse_pkg_src_any(w, pkg.pkg_src, start, FALSE)
  ELSE parse_pkg_src(pkg.s, start, FileExists(w, pkg.s, start),
                     RecipeExists(w, pkg.s), no_recipe)

\* PackageBuild.merge(other): the recipe's source, the caller's options
\* where the caller set them.
merge(p, other) ==
  [p EXCEPT !.requirements = IF other.requirements # Nil THEN other.requirements ELSE @,
            !.file = IF other.file # NoneObj THEN other.file ELSE @]

RECURSIVE from_file(_, _, _, _)
RECURSIVE from_lines(_, _, _, _)
RECURSIVE from_recipe(_, _, _, _)
RECURSIVE parse_pkg_build(_, _, _, _)

\* parse_pkg_build once the source of a PackageBuild is resolved: a source
\* that names a recipe is expanded from the recipe, the PackageBuild second.
parse_pkg_build_of_build(w, pkg) ==
  IF pkg.pkg_src.recipe # Nil
  THEN from_recipe(w, pkg.pkg_src.recipe, pkg, Nil)
  ELSE Ok(pkg)
\* parse_pkg_build once the source of a raw token is resolved: the name of
\* the source goes second to from_recipe, where pkg stands.
parse_pkg_build_of_source(w, pkg_src) ==
  IF pkg_src.recipe # Nil
  THEN from_recipe(w, pkg_src.recipe, Str(pkg_src.name), Nil)
  ELSE Ok(PackageBuild(pkg_src))
\* parse_pkg_build(pkg, start, no_recipe).  The cmake override
\* (find_cmake) touches no field kept here.
parse_pkg_build(w, pkg, start, no_recipe) ==
  IF IsPackageBuild(pkg)
  THEN parse_pkg_build_of_build(
         w, [pkg EXCEPT !.pkg_src = parse_pkg_src_any(w, pkg.pkg_src, start, no_recipe)])
  ELSE parse_pkg_build_of_source(w, parse_pkg_src_any(w, pkg, start, no_recipe))

\* from_recipe, the first package p of package.txt made the recipe's own:
\* requirements.txt as requirements when it exists, the recipe pointer
\* cleared.
from_recipe_package(w, p, requirements) ==
  [p EXCEPT !.requirements = IF Exists(w, requirements) THEN requirements ELSE @,
            !.pkg_src.recipe = Nil]
\* from_recipe, the name and the merge.  `if pkg:` is false for None and for
\* an empty string; pkg.pkg_src of a string raises AttributeError.
from_recipe_named(p, pkg, name) ==
  IF pkg # NoneObj /\ ~ (IsStr(pkg) /\ pkg.s \in {<< >>, Nil})
  THEN IF IsStr(pkg) THEN Err("AttributeError", << >>)
       ELSE Ok(merge([p EXCEPT !.pkg_src.name = pkg.pkg_src.name], pkg))
  ELSE IF name # Nil /\ name # << >>
  THEN Ok([p EXCEPT !.pkg_src.name = name])
  ELSE Ok(p)
\* from_recipe once package.txt is opened: next(iter(ps)) takes the first
\* package ps yields, or raises what ended ps before it yielded one.
from_recipe_next(w, ps, requirements, pkg, name) ==
  IF ps.val = << >>
  THEN Err(IF ps.exc = "none" THEN "StopIteration" ELSE ps.exc, << >>)
  ELSE from_recipe_named(from_recipe_package(w, Head(ps.val), requirements), pkg, name)
\* from_recipe(recipe, pkg, name): pkg is None, or whatever the caller
\* passed second.
from_recipe(w, recipe, pkg, name) ==
  IF ~ Exists(w, << recipe, "package.txt" >>) THEN Err("ensure_exists", << >>)
  ELSE from_recipe_next(w, from_file(w, << recipe, "package.txt" >>, Nil, TRUE),
                        << recipe, "requirements.txt" >>, pkg, name)

\* from_file, `for p in ps: yield p` and the lines after: what the line
\* yields, then what the rest yields; an exception in the line ends the loop.
yield_each(ps, rest) ==
  IF ps.exc # "none" THEN ps ELSE Err(rest.exc, ps.val \o rest.val)
\* from_file, the list of the one PackageBuild parse_pkg_build returned.
list_of(b) == IF b.exc = "none" THEN Ok(<< b.val >>) ELSE b
\* from_file, ps of one line: the packages of the file pb names, or pb built.
from_line(w, pb, start, no_recipe) ==
  IF pb.file # NoneObj
  THEN from_file(w, << IF pb.file.sub THEN Sub(start) ELSE start, pb.file.name >>,
                 Nil, no_recipe)
  ELSE list_of(parse_pkg_build(w, pb, start, no_recipe))

\* from_lines with the include lines skipped.
from_lines_skips_include(w, lines, start, no_recipe) ==
  IF lines = << >> THEN Ok(<< >>)
  ELSE IF Head(lines).kind # "pkg" THEN from_lines(w, Tail(lines), start, no_recipe)
  ELSE yield_each(list_of(parse_pkg_build(w, parse_pkg_build_tokens(Head(lines)),
                                          start, no_recipe)),
                  from_lines(w, Tail(lines), start, no_recipe))

\* from_file, the loop over the lines read: what it yields, and the
\* exception that ends it if one does.
from_lines(w, lines, start, no_recipe) ==
  IF lines = << >> THEN Ok(<< >>)
  ELSE IF Head(lines).kind = "blank" THEN from_lines(w, Tail(lines), start, no_recipe)
  ELSE yield_each(from_line(w, parse_pkg_build_tokens(Head(lines)), start, no_recipe),
                  from_lines(w, Tail(lines), start, no_recipe))

\* from_file(file, url, no_recipe); url is None or 'file://' and a directory.
from_file(w, file, url, no_recipe) ==
  IF file = Nil THEN Ok(<< >>)
  ELSE IF ~ Exists(w, file) THEN Ok(<< >>)
  ELSE LET start == IF url # Nil /\ Head(url) = "file://" THEN Tail(url)
                    ELSE file[1]
       IN  from_lines(w, ReadLines(w, file), start, no_recipe)

\* ------------------------------------------------- files that include files
RECURSIVE SeqsOf(_, _)
SeqsOf(S, n) ==
  IF n = 0 THEN {<< >>}
  ELSE {<< >>} \cup {<< x >> \o s : x \in S, s \in SeqsOf(S, n - 1)}
FileDirs == {TopDir, Sub(TopDir)}
\* r1 is the file read; it may include r2, which may include r3.  Token a
\* names a path where the world has one, token b never does.
FileWorlds ==
  [files : [r1 : [dir : {TopDir},
                  lines : SeqsOf({PkgLine(<< "a" >>), PkgLine(<< "b" >>),
                                  FileLine(FALSE, "r2"), FileLine(TRUE, "r2")},
                                 MaxLines)],
            r2 : [dir : FileDirs,
                  lines : SeqsOf({PkgLine(<< "a" >>), FileLine(FALSE, "r3"),
                                  FileLine(TRUE, "r3")}, MaxLines)],
            r3 : [dir : FileDirs,
                  lines : {<< >>, << BlankLine, PkgLine(<< "a" >>) >>}]],
   local : SUBSET {<< d, << "a" >> >> : d \in FileDirs},
   recipes : {{}}]
FileCalls ==
  [k : {"from_file"}, w : FileWorlds, file : {<< TopDir, "r1" >>},
   url : {Nil} \cup {<< "file://" >> \o d : d \in FileDirs},
   pc : {"call"}, result : {Ok(<< >>)}, inlined : {Ok(<< >>)}]

\* The directory the lines of the file read are resolved against.
StartOf(a) == IF a.url # Nil THEN Tail(a.url) ELSE a.file[1]
\* The file an include line of the file read names.
Included(a, line) == << IF line.sub THEN Sub(StartOf(a)) ELSE StartOf(a), line.name >>
\* The lines of the file read with each include line replaced by the lines
\* of the file it names.
RECURSIVE InlinedLines(_, _)
InlinedLines(a, lines) ==
  IF lines = << >> THEN << >>
  ELSE (IF Head(lines).kind # "file" THEN << Head(lines) >>
        ELSE IF Exists(a.w, Included(a, Head(lines)))
        THEN ReadLines(a.w, Included(a, Head(lines)))
        ELSE << >>)
       \o InlinedLines(a, Tail(lines))
InlinedWorld(a) ==
  [a.w EXCEPT !.files[a.file[2]].lines = InlinedLines(a, ReadLines(a.w, a.file))]

\* from_file on the file as it is.
FromFile ==
  /\ aux.pc = "call"
  /\ aux' = [aux EXCEPT !.pc = "read",
                        !.result = from_file(aux.w, aux.file, aux.url, FALSE)]
  /\ StoreIdle
\* from_file on the file with its includes inlined.
FromFileInlined ==
  /\ aux.pc = "read"
  /\ aux' = [aux EXCEPT !.pc = "done",
                        !.inlined = from_file(InlinedWorld(aux), aux.file, aux.url, FALSE)]
  /\ StoreIdle

InitFile ==
  /\ nt = FALSE /\ symlinks = TRUE /\ reqs = NoReqs
  /\ aux \in FileCalls
  /\ EmptyStore
NextFile == FromFile \/ FromFileInlined
SpecFile == InitFile /\ [][NextFile]_vars

\* ------------------------------------------------------ claims on from_file
FileRead == aux.k = "from_file" /\ aux.pc = "done"
\* An include line of the file read that names a file of another directory
\* than the one the file's lines are resolved against.
IncludesOtherDir == \E i \in DOMAIN ReadLines(aux.w, aux.file) :
  ReadLines(aux.w, aux.file)[i].kind = "file" /\ ReadLines(aux.w, aux.file)[i].sub

\* C18: when the include lines of a requirements file name files of the
\* directory the file's own lines are resolved against, from_file yields for
\* the file the sequence it yields for the file with the included files'
\* lines in place of the include lines, whatever those files include in turn.
InclusionIsInlining ==
  (FileRead /\ ~ IncludesOtherDir) => aux.result = aux.inlined

\* C18 as stated: for any included file.
InclusionIsInliningAnywhere ==
  FileRead => aux.result = aux.inlined

\* r1 includes r2 of its own directory, r2 includes r3 of the subdirectory,
\* and the three levels yielded two packages.
NestedIncludeReached ==
  /\ FileRead /\ ~ IncludesOtherDir
  /\ \E i \in DOMAIN ReadLines(aux.w, aux.file) :
       ReadLines(aux.w, aux.file)[i] = FileLine(FALSE, "r2")
  /\ aux.w.files.r2.dir = TopDir /\ aux.w.files.r3.dir = Sub(TopDir)
  /\ aux.w.files.r2.lines = << FileLine(TRUE, "r3"), PkgLine(<< "a" >>) >>
  /\ Len(aux.result.val) >= 2
  /\ aux.result.val[1].pkg_src # aux.result.val[2].pkg_src

\* ---------------------------------------------------------- recipes
\* The recipe directory of package a, as parse_src_recipe names it.
RecipeDir == Text("<recipes>/") \o << "a" >> \o Text("/")
\* What the caller names: a, a under the alias b, or b, which has no recipe.
CallerTokens == {<< "a" >>, << "b", ",", "a" >>, << "b" >>}
\* The first line of the recipe's package.txt: a shorthand, with or without
\* a name of its own.
RecipeTokens == {<< "b", "/", "a" >>, << "a", ",", "b", "/", "a" >>}
PackageTxts ==
  [dir : {RecipeDir, Nowhere},
   lines : {<< >>} \cup {<< PkgLine(t) >> : t \in RecipeTokens}
           \cup {<< BlankLine, PkgLine(t), PkgLine(<< "b" >>) >> : t \in RecipeTokens}]
RequirementsTxts == [dir : {RecipeDir, Nowhere}, lines : {<< >>}]
RecipeWorlds ==
  [files : {[f \in {"package.txt", "requirements.txt"} |->
               IF f = "package.txt" THEN p ELSE q] :
            p \in PackageTxts, q \in RequirementsTxts},
   local : {{}},
   recipes : {{<< << "a" >>, Nil >>}}]
\* parse_pkg_build is given a raw token, a PackageBuild made of one, or a
\* PackageBuild whose source is already the recipe's PackageSource.
RecipeCalls ==
  [k : {"parse_pkg_build"}, w : RecipeWorlds,
   pkg : {Str(t) : t \in CallerTokens}
         \cup {PackageBuild(Str(t)) : t \in CallerTokens}
         \cup {PackageBuild(PackageSource(<< "a" >>, Nil, RecipeDir))},
   start : {TopDir}, no_recipe : BOOLEAN, pc : {"call"},
   result : {Ok(PackageBuild(NoSource))}]

ParsePkgBuild ==
  /\ aux.pc = "call"
  /\ aux' = [aux EXCEPT !.pc = "done",
               !.result = parse_pkg_build(aux.w, aux.pkg, aux.start, aux.no_recipe)]
  /\ StoreIdle

InitRecipe ==
  /\ nt = FALSE /\ symlinks = TRUE /\ reqs = NoReqs
  /\ aux \in RecipeCalls
  /\ EmptyStore
NextRecipe == ParsePkgBuild
SpecRecipe == InitRecipe /\ [][NextRecipe]_vars

\* ------------------------------------------------------- claims on recipes
\* The source the caller's specification resolves to.
CallerSource ==
  parse_pkg_src_any(aux.w, IF IsPackageBuild(aux.pkg) THEN aux.pkg.pkg_src ELSE aux.pkg,
                    aux.start, aux.no_recipe)
\* The name the caller gave: the alias of its token, if it has one.
CallerName ==
  LET t == IF IsStr(aux.pkg) THEN aux.pkg.s
           ELSE IF IsStr(aux.pkg.pkg_src) THEN aux.pkg.pkg_src.s ELSE << >>
  IN  parse_alias(t)[1]
PackageTxt == aux.w.files["package.txt"]
RequirementsTxt == aux.w.files["requirements.txt"]
\* The first package line of package.txt, resolved without recipes.
FirstOfPackageTxt ==
  LET ls == SelectSeq(PackageTxt.lines, LAMBDA l : l.kind = "pkg")
  IN  parse_pkg_src(Head(ls).token, RecipeDir, FALSE, FALSE, TRUE)

\* C19: parse_pkg_build of a specification that resolves to a recipe, given
\* as a raw token or as a PackageBuild, fails when the recipe has no
\* package.txt; when package.txt names a package it returns the PackageBuild
\* of that file's first package, with the recipe pointer cleared, the
\* recipe's requirements.txt as requirements when that file exists, and as
\* name the caller's alias if it gave one and the recipe's name otherwise.
RecipeExpansion ==
  ( /\ aux.k = "parse_pkg_build" /\ aux.pc = "done"
    /\ CallerSource.recipe # Nil )
  => IF PackageTxt.dir # RecipeDir THEN aux.result.exc # "none"
     ELSE PackageTxt.lines # << >>
          => /\ aux.result.exc = "none"
             /\ aux.result.val.pkg_src.url = FirstOfPackageTxt.url
             /\ aux.result.val.pkg_src.recipe = Nil
             /\ RequirementsTxt.dir = RecipeDir
                => aux.result.val.requirements = << RecipeDir, "requirements.txt" >>
             /\ aux.result.val.pkg_src.name =
                  IF CallerName # Nil THEN CallerName ELSE << "a" >>

====
